---------------------------- MODULE Spec2Model ----------------------------
(***************************************************************************)
(* Model of tools/hss-payload-generator/generate_payload.c: the builder    *)
(* API (generate_init, generate_add_chunk, generate_add_ziChunk) and the   *)
(* serialisation pipeline of generate_payload.                             *)
(*                                                                         *)
(* The output stream is a sequence of cells, one per byte of the file.     *)
(* Each field of a record is narrowed to one cell; the remaining           *)
(* sizeof(record) - (number of fields) cells of the record are zero.  The  *)
(* three sizeof values come from hss_types.h and are drawn from Layouts.   *)
(***************************************************************************)
EXTENDS Naturals, Sequences, FiniteSets

(***************************************************************************)
(* Bounds of the model                                                     *)
(***************************************************************************)
\* at most this many generate_add_chunk / generate_add_ziChunk calls
MaxCalls == 3

(***************************************************************************)
(* Program constants                                                       *)
(***************************************************************************)
PAD_SIZE == 8
EXIT_SUCCESS == 0
EXIT_FAILURE == 1
\* the two header tags of hss_types.h, each narrowed to one cell
mHSS_BOOT_MAGIC == 85
mHSS_BOOT_VERSION == 1

\* sizeof(struct HSS_BootImage), sizeof(struct HSS_BootChunkDesc) and
\* sizeof(struct HSS_BootZIChunkDesc): unaligned and aligned combinations
Layouts ==
    { [hdr |-> 9,  chunk |-> 5, zi |-> 3],
      [hdr |-> 12, chunk |-> 6, zi |-> 4],
      [hdr |-> 16, chunk |-> 8, zi |-> 8] }

\* descriptors a caller may pass to generate_add_chunk (loadAddr is whatever
\* the caller left in the field; size 0 is allowed)
ChunkInputs ==
    { [owner |-> 0, loadAddr |-> 0,  execAddr |-> 0,   size |-> 0,  crc32 |-> 0],
      [owner |-> 1, loadAddr |-> 99, execAddr |-> 128, size |-> 3,  crc32 |-> 90],
      [owner |-> 2, loadAddr |-> 0,  execAddr |-> 64,  size |-> 8,  crc32 |-> 7],
      [owner |-> 0, loadAddr |-> 0,  execAddr |-> 0,   size |-> 10, crc32 |-> 0] }

\* descriptors a caller may pass to generate_add_ziChunk
ZIChunkInputs ==
    { [owner |-> 0, execAddr |-> 0,  size |-> 0],
      [owner |-> 1, execAddr |-> 32, size |-> 0],
      [owner |-> 2, execAddr |-> 48, size |-> 16] }

\* first byte of a caller's buffer; byte k of the buffer is fill + k
BufferFills == {170}

\* private_key_filename: NULL or a key file
KeyInputs == {"NULL", "key.pem"}

\* raw r||s values ECDSA_do_sign may return (the nonce is random)
SignatureValues == {41, 42}

Zeros(n) == [k \in 1..n |-> 0]

(***************************************************************************)
(* calculate_padding                                                       *)
(***************************************************************************)
calculate_padding_nopad(size, pad) == 0

calculate_padding(size, pad) ==
    (((size + (pad - 1)) \div pad) * pad) - size

(***************************************************************************)
(* Raw images of the three records, as fwrite() puts them in the file      *)
(***************************************************************************)
EncodeBootImage(h, sz) ==
    << h.magic, h.version, h.headerLength, h.headerCrc, h.chunkTableOffset,
       h.ziChunkTableOffset, h.bootImageLength, h.digest, h.ecdsaSig >>
    \o Zeros(sz - 9)

EncodeChunkDesc(c, sz) ==
    << c.owner, c.loadAddr, c.execAddr, c.size, c.crc32 >> \o Zeros(sz - 5)

EncodeZIChunkDesc(z, sz) ==
    << z.owner, z.execAddr, z.size >> \o Zeros(sz - 3)

(***************************************************************************)
(* CRC32_calculate and SHA384 (library code): two different checksums of   *)
(* a byte sequence                                                         *)
(***************************************************************************)
\* both fold the bytes lo..hi pairwise, halving the range at each step
RECURSIVE CRC32_range(_, _, _)
CRC32_range(bytes, lo, hi) ==
    IF lo = hi THEN (bytes[lo] * 31 + 1) % 65521
    ELSE (CRC32_range(bytes, lo, (lo + hi) \div 2) * 251
          + CRC32_range(bytes, ((lo + hi) \div 2) + 1, hi)) % 65521

CRC32_calculate(bytes) ==
    IF Len(bytes) = 0 THEN 0 ELSE CRC32_range(bytes, 1, Len(bytes))

RECURSIVE SHA384_range(_, _, _)
SHA384_range(bytes, lo, hi) ==
    IF lo = hi THEN (bytes[lo] * 17 + 5) % 65537
    ELSE (SHA384_range(bytes, lo, (lo + hi) \div 2) * 257
          + SHA384_range(bytes, ((lo + hi) \div 2) + 1, hi) + 3) % 65537

\* the digest of the first length bytes of data
SHA384(data, length) ==
    IF length = 0 THEN 1 ELSE 1 + SHA384_range(data, 1, length)

(***************************************************************************)
(* The output stream: data (the file), pos (the cursor) and pads (the set  *)
(* of offsets whose current byte was put there by write_pad)               *)
(***************************************************************************)
fwrite(st, bytes) ==
    [ data |-> SubSeq(st.data, 1, st.pos) \o bytes
               \o SubSeq(st.data, st.pos + Len(bytes) + 1, Len(st.data)),
      pos  |-> st.pos + Len(bytes),
      pads |-> {o \in st.pads : o < st.pos \/ o >= st.pos + Len(bytes)} ]

write_pad(st, pad) ==
    [ fwrite(st, Zeros(pad)) EXCEPT
        !.pads = @ \cup {o \in 0..(st.pos + pad - 1) : o >= st.pos} ]

fseek(st, offset) == [st EXCEPT !.pos = offset]

ftello(st) == st.pos


(***************************************************************************)
(* State                                                                   *)
(***************************************************************************)
VARIABLES
    pc,                     \* position of the process
    sizes,                  \* the three sizeof values (a member of Layouts)
    bootImage,              \* struct HSS_BootImage bootImage
    chunkTable,             \* chunkTable[0..numChunks-1], 1-based here
    ziChunkTable,           \* ziChunkTable[0..numZIChunks-1], 1-based here
    numChunks,
    numZIChunks,
    bootImagePaddedSize,
    chunkTablePaddedSize,
    ziChunkTablePaddedSize,
    heap,                   \* the callers' buffers: data, writes, frees
    pFileOut,               \* the output stream
    private_key_filename,
    blobIndex,              \* i of the loop of generate_blobs
    exitStatus,             \* argument of exit(), read when pc = "exited"
    calls,                  \* the builder calls made and what they returned
    probe                   \* observations of the run (see InitProbe)

vars == << pc, sizes, bootImage, chunkTable, ziChunkTable, numChunks,
           numZIChunks, bootImagePaddedSize, chunkTablePaddedSize,
           ziChunkTablePaddedSize, heap, pFileOut, private_key_filename,
           blobIndex, exitStatus, calls, probe >>

builderVars == << chunkTable, ziChunkTable, numChunks, numZIChunks, heap >>
paddedVars == << bootImagePaddedSize, chunkTablePaddedSize,
                 ziChunkTablePaddedSize >>

ZeroBootImage ==
    [ magic |-> 0, version |-> 0, headerLength |-> 0, headerCrc |-> 0,
      chunkTableOffset |-> 0, ziChunkTableOffset |-> 0, bootImageLength |-> 0,
      digest |-> 0, ecdsaSig |-> 0 ]

ClosedStream == [data |-> << >>, pos |-> 0, pads |-> {}]

InitProbe ==
    [ sectionEnds |-> << >>,   \* ftello() after each section and its padding
      blobStart   |-> << >>,   \* ftello() before each blob is written
      crcCount    |-> 0,       \* number of CRC32_calculate calls on the header
      preSign     |-> << >>,   \* the file when sign_payload was entered
      signIO      |-> 0,       \* stream operations made by sign_payload
      oobRead     |-> FALSE,   \* chunkTable[i] was read with i >= numChunks
      badBuffer   |-> FALSE,   \* a freed buffer was read or freed again
      failSite    |-> "none" ] \* the call whose failure ended the process

Init ==
    /\ pc = "start"
    /\ sizes \in Layouts
    /\ bootImage = ZeroBootImage
    /\ chunkTable = << >>
    /\ ziChunkTable = << >>
    /\ numChunks = 0
    /\ numZIChunks = 0
    /\ bootImagePaddedSize = 0
    /\ chunkTablePaddedSize = 0
    /\ ziChunkTablePaddedSize = 0
    /\ heap = << >>
    /\ pFileOut = ClosedStream
    /\ private_key_filename = "NULL"
    /\ blobIndex = 0
    /\ exitStatus = EXIT_SUCCESS
    /\ calls = << >>
    /\ probe = InitProbe

\* exit(status) after the failure of the call named site
Exit(status, site) ==
    /\ pc' = "exited"
    /\ exitStatus' = status
    /\ probe' = [probe EXCEPT !.failSite = site]

\* a failed assert(): abort()
Abort(site) ==
    /\ pc' = "aborted"
    /\ probe' = [probe EXCEPT !.failSite = site]
    /\ UNCHANGED exitStatus

(***************************************************************************)
(* Table builder                                                           *)
(***************************************************************************)
generate_init ==
    /\ pc = "start"
    /\ bootImage' = [bootImage EXCEPT !.magic = mHSS_BOOT_MAGIC,
                                      !.version = mHSS_BOOT_VERSION]
    /\ pc' = "build"
    /\ UNCHANGED << sizes, builderVars, paddedVars, pFileOut,
                    private_key_filename, blobIndex, exitStatus, calls,
                    probe >>

\* the buffer of chunk.size bytes the caller hands over
Buffer(chunk, fill) == [k \in 1..chunk.size |-> (fill + k) % 256]

add_chunk_stored(chunk, fill) ==
    /\ numChunks' = numChunks + 1
    /\ heap' = Append(heap, [data |-> Buffer(chunk, fill),
                             writes |-> 0, frees |-> 0])
    /\ chunkTable' = Append(chunkTable,
                            [chunk |-> chunk, pBuffer |-> Len(heap) + 1])

add_chunk_always(chunk, fill) == add_chunk_stored(chunk, fill)

add_chunk_effect(chunk, fill) ==
    IF chunk.size # 0
    THEN add_chunk_stored(chunk, fill)
    ELSE UNCHANGED << numChunks, heap, chunkTable >>

generate_add_chunk ==
    /\ pc = "build"
    /\ Len(calls) < MaxCalls
    /\ \E chunk \in ChunkInputs, fill \in BufferFills :
         /\ \/ /\ add_chunk_effect(chunk, fill)
               /\ calls' = Append(calls, [op |-> "add_chunk", arg |-> chunk,
                                           ret |-> numChunks'])
               /\ UNCHANGED << pc, exitStatus, probe >>
            \/ /\ chunk.size # 0       \* realloc() returns NULL
               /\ Exit(EXIT_FAILURE, "realloc")
               /\ UNCHANGED << numChunks, heap, chunkTable, calls >>
    /\ UNCHANGED << sizes, bootImage, ziChunkTable, numZIChunks, paddedVars,
                    pFileOut, private_key_filename, blobIndex >>

generate_add_ziChunk ==
    /\ pc = "build"
    /\ Len(calls) < MaxCalls
    /\ \E ziChunk \in ZIChunkInputs :
         \/ /\ numZIChunks' = numZIChunks + 1
            /\ ziChunkTable' = Append(ziChunkTable, [ziChunk |-> ziChunk])
            /\ calls' = Append(calls, [op |-> "add_ziChunk", arg |-> ziChunk,
                                        ret |-> numZIChunks'])
            /\ UNCHANGED << pc, exitStatus, probe >>
         \/ /\ Exit(EXIT_FAILURE, "realloc")   \* realloc() returns NULL
            /\ UNCHANGED << numZIChunks, ziChunkTable, calls >>
    /\ UNCHANGED << sizes, bootImage, chunkTable, numChunks, heap, paddedVars,
                    pFileOut, private_key_filename, blobIndex >>

(***************************************************************************)
(* Section serializer                                                      *)
(***************************************************************************)
\* generate_payload, up to fopen()
generate_payload_open ==
    /\ pc = "build"
    /\ \E key \in KeyInputs : private_key_filename' = key
    /\ \/ /\ pFileOut' = ClosedStream      \* "w+": the file is truncated
          /\ pc' = "header1"
          /\ UNCHANGED << exitStatus, probe >>
       \/ /\ Exit(EXIT_FAILURE, "fopen")
          /\ UNCHANGED pFileOut
    /\ UNCHANGED << sizes, bootImage, builderVars, paddedVars, blobIndex,
                    calls >>

\* where generate_payload / sign_payload continue after generate_header
AfterHeader(at) ==
    CASE at = "header1" -> "chunks"
      [] at = "header2" -> "sign"
      [] at = "header3" -> "close"

generate_header_write_noseek(st, pBootImage) ==
    write_pad(fwrite(st, EncodeBootImage(pBootImage, sizes.hdr)),
              calculate_padding(sizes.hdr, PAD_SIZE))

\* the stream after a generate_header that met no error
generate_header_write(st, pBootImage) ==
    write_pad(fwrite(fseek(st, 0), EncodeBootImage(pBootImage, sizes.hdr)),
              calculate_padding(sizes.hdr, PAD_SIZE))

generate_header ==
    /\ pc \in {"header1", "header2", "header3"}
    /\ \/ /\ pFileOut' = generate_header_write(pFileOut, bootImage)
          /\ bootImagePaddedSize' = ftello(pFileOut')
          /\ pc' = AfterHeader(pc)
          /\ probe' = [probe EXCEPT
                 !.sectionEnds = IF pc = "header1"
                                 THEN Append(@, ftello(pFileOut')) ELSE @,
                 !.signIO = IF pc = "header3" THEN @ + 1 ELSE @]
          /\ UNCHANGED exitStatus
       \/ /\ \E site \in {"fseek", "fwrite"} : Exit(EXIT_SUCCESS, site)
          /\ UNCHANGED << pFileOut, bootImagePaddedSize >>
       \/ /\ calculate_padding(sizes.hdr, PAD_SIZE) > 0
          /\ Exit(EXIT_SUCCESS, "write_pad")
          /\ UNCHANGED << pFileOut, bootImagePaddedSize >>
    /\ UNCHANGED << sizes, bootImage, builderVars, chunkTablePaddedSize,
                    ziChunkTablePaddedSize, private_key_filename, blobIndex,
                    calls >>

RECURSIVE cumulativeBlobSize_unpadded(_)
cumulativeBlobSize_unpadded(i) ==
    IF i = 0 THEN 0
    ELSE cumulativeBlobSize_unpadded(i - 1) + chunkTable[i].chunk.size

\* cumulativeBlobSize when the loop of generate_chunks has run i iterations
RECURSIVE cumulativeBlobSize(_)
cumulativeBlobSize(i) ==
    IF i = 0 THEN 0
    ELSE cumulativeBlobSize(i - 1)
         + chunkTable[i].chunk.size
         + calculate_padding(chunkTable[i].chunk.size, PAD_SIZE)

\* chunkTable[i].chunk.loadAddr as iteration i (from 0) of that loop sets it,
\* the chunk table starting at offset
loadAddr_nosentinel(offset, i) ==
    offset
    + (numChunks * sizes.chunk)
    + calculate_padding(sizes.chunk * (numChunks + 1), PAD_SIZE)
    + (numZIChunks * sizes.zi)
    + sizes.zi
    + calculate_padding(sizes.zi * (numZIChunks + 1), PAD_SIZE)
    + cumulativeBlobSize(i)
    + calculate_padding(cumulativeBlobSize(i), PAD_SIZE)

loadAddr(offset, i) ==
    offset
    + (numChunks * sizes.chunk)
    + sizes.chunk
    + calculate_padding(sizes.chunk * (numChunks + 1), PAD_SIZE)
    + (numZIChunks * sizes.zi)
    + sizes.zi
    + calculate_padding(sizes.zi * (numZIChunks + 1), PAD_SIZE)
    + cumulativeBlobSize(i)
    + calculate_padding(cumulativeBlobSize(i), PAD_SIZE)

\* the chunk table after the loop of generate_chunks
generate_chunks_table(offset) ==
    [i \in 1..numChunks |->
        [chunkTable[i] EXCEPT !.chunk.loadAddr = loadAddr(offset, i - 1)]]

\* the descriptors that loop writes from index i on, out of table
RECURSIVE generate_chunks_loop(_, _)
generate_chunks_loop(table, i) ==
    IF i > numChunks THEN << >>
    ELSE EncodeChunkDesc(table[i].chunk, sizes.chunk)
         \o generate_chunks_loop(table, i + 1)

ChunkSentinel ==
    [owner |-> 0, loadAddr |-> 0, execAddr |-> 0, size |-> 0, crc32 |-> 0]

generate_chunks ==
    /\ pc = "chunks"
    /\ bootImage' = [bootImage EXCEPT !.chunkTableOffset = ftello(pFileOut)]
    /\ IF bootImage'.chunkTableOffset
              # sizes.hdr + calculate_padding(sizes.hdr, PAD_SIZE)
       THEN /\ Abort("assert")
            /\ UNCHANGED << chunkTable, pFileOut, chunkTablePaddedSize >>
       ELSE \/ LET s == generate_chunks_loop(chunkTable', 1)
                          \o EncodeChunkDesc(ChunkSentinel, sizes.chunk)
               IN  /\ chunkTable' =
                          generate_chunks_table(bootImage'.chunkTableOffset)
                   /\ pFileOut' = write_pad(fwrite(pFileOut, s),
                          calculate_padding(sizes.chunk * (numChunks + 1),
                                            PAD_SIZE))
                   /\ chunkTablePaddedSize' =
                          ftello(pFileOut') - bootImage'.chunkTableOffset
                   /\ pc' = "zichunks"
                   /\ probe' = [probe EXCEPT !.sectionEnds =
                                    Append(@, ftello(pFileOut'))]
                   /\ UNCHANGED exitStatus
            \/ /\ Exit(EXIT_SUCCESS, "fwrite")
               /\ UNCHANGED << chunkTable, pFileOut, chunkTablePaddedSize >>
            \/ /\ calculate_padding(sizes.chunk * (numChunks + 1),
                                    PAD_SIZE) > 0
               /\ Exit(EXIT_SUCCESS, "write_pad")
               /\ UNCHANGED << chunkTable, pFileOut, chunkTablePaddedSize >>
    /\ UNCHANGED << sizes, ziChunkTable, numChunks, numZIChunks, heap,
                    bootImagePaddedSize, ziChunkTablePaddedSize,
                    private_key_filename, blobIndex, calls >>

\* the descriptors the loop of generate_ziChunks writes from index i on
RECURSIVE generate_ziChunks_loop(_)
generate_ziChunks_loop(i) ==
    IF i > numZIChunks THEN << >>
    ELSE EncodeZIChunkDesc(ziChunkTable[i].ziChunk, sizes.zi)
         \o generate_ziChunks_loop(i + 1)

ZIChunkSentinel == [owner |-> 0, execAddr |-> 0, size |-> 0]

generate_ziChunks ==
    /\ pc = "zichunks"
    /\ bootImage' = [bootImage EXCEPT !.ziChunkTableOffset = ftello(pFileOut)]
    /\ IF bootImage'.ziChunkTableOffset
              # bootImage.chunkTableOffset
                + (numChunks * sizes.chunk)
                + sizes.chunk
                + calculate_padding(sizes.chunk * (numChunks + 1), PAD_SIZE)
       THEN /\ Abort("assert")
            /\ UNCHANGED << pFileOut, ziChunkTablePaddedSize >>
       ELSE \/ LET s == generate_ziChunks_loop(1)
                          \o EncodeZIChunkDesc(ZIChunkSentinel, sizes.zi)
               IN  /\ pFileOut' = write_pad(fwrite(pFileOut, s),
                          calculate_padding(sizes.zi * (numZIChunks + 1),
                                            PAD_SIZE))
                   /\ ziChunkTablePaddedSize' =
                          ftello(pFileOut') - bootImage'.ziChunkTableOffset
                   /\ pc' = "headerLength"
                   /\ probe' = [probe EXCEPT !.sectionEnds =
                                    Append(@, ftello(pFileOut'))]
                   /\ UNCHANGED exitStatus
            \/ /\ Exit(EXIT_SUCCESS, "fwrite")
               /\ UNCHANGED << pFileOut, ziChunkTablePaddedSize >>
            \/ /\ calculate_padding(sizes.zi * (numZIChunks + 1),
                                    PAD_SIZE) > 0
               /\ Exit(EXIT_SUCCESS, "write_pad")
               /\ UNCHANGED << pFileOut, ziChunkTablePaddedSize >>
    /\ UNCHANGED << sizes, builderVars, bootImagePaddedSize,
                    chunkTablePaddedSize, private_key_filename, blobIndex,
                    calls >>

\* generate_payload between generate_ziChunks and generate_blobs
finalize_headerLength ==
    /\ pc = "headerLength"
    /\ bootImage' = [bootImage EXCEPT !.headerLength = ftello(pFileOut)]
    /\ IF bootImage'.headerLength
              # bootImagePaddedSize + chunkTablePaddedSize
                + ziChunkTablePaddedSize
       THEN Abort("assert")
       ELSE /\ pc' = "blobs"
            /\ UNCHANGED << exitStatus, probe >>
    /\ UNCHANGED << sizes, builderVars, paddedVars, pFileOut,
                    private_key_filename, blobIndex, calls >>

\* generate_blobs up to its loop: the assertion on chunkTable[0].  With no
\* chunk added chunkTable is NULL and the read is out of bounds: the process
\* is killed, or the build (NDEBUG) has no assertion and goes on.
generate_blobs_enter ==
    /\ pc = "blobs"
    /\ blobIndex' = 0
    /\ IF numChunks = 0
       THEN /\ \/ pc' = "aborted"
               \/ pc' = "blob_loop"
            /\ probe' = [probe EXCEPT !.oobRead = TRUE]
            /\ UNCHANGED exitStatus
       ELSE IF chunkTable[1].chunk.loadAddr
                  # bootImage.ziChunkTableOffset
                    + (numZIChunks * sizes.zi)
                    + sizes.zi
                    + calculate_padding(sizes.zi * (numZIChunks + 1),
                                        PAD_SIZE)
            THEN Abort("assert")
            ELSE /\ pc' = "blob_loop"
                 /\ UNCHANGED << exitStatus, probe >>
    /\ UNCHANGED << sizes, bootImage, builderVars, paddedVars, pFileOut,
                    private_key_filename, calls >>

\* heap after the fwrite() of buffer b
buffer_written(h, b) == [h EXCEPT ![b].writes = @ + 1]

\* heap after free() of buffer b
buffer_freed(h, b) == [h EXCEPT ![b].frees = @ + 1]

blob_release(h, b) == buffer_freed(buffer_written(h, b), b)

\* one iteration of the loop of generate_blobs
generate_blobs_iter ==
    /\ pc = "blob_loop"
    /\ blobIndex < numChunks
    /\ LET i    == blobIndex + 1
           b    == chunkTable[i].pBuffer
           size == chunkTable[i].chunk.size
           posn == ftello(pFileOut)
       IN  \/ /\ pFileOut' = write_pad(
                     fwrite(pFileOut, SubSeq(heap[b].data, 1, size)),
                     calculate_padding(size, PAD_SIZE))
              /\ heap' = blob_release(heap, b)
              /\ blobIndex' = i
              /\ probe' = [probe EXCEPT
                     !.blobStart = Append(@, posn),
                     !.sectionEnds = Append(@, ftello(pFileOut')),
                     !.badBuffer = @ \/ heap[b].frees > 0]
              /\ UNCHANGED << pc, exitStatus >>
           \/ /\ Exit(EXIT_SUCCESS, "fwrite")
              /\ UNCHANGED << pFileOut, heap, blobIndex >>
           \/ /\ calculate_padding(size, PAD_SIZE) > 0
              /\ Exit(EXIT_SUCCESS, "write_pad")
              /\ UNCHANGED << pFileOut, heap, blobIndex >>
    /\ UNCHANGED << sizes, bootImage, chunkTable, ziChunkTable, numChunks,
                    numZIChunks, paddedVars, private_key_filename, calls >>

(***************************************************************************)
(* Integrity and signing                                                   *)
(***************************************************************************)
\* the header after lines 436-439 of generate_payload
checksummed_crc_first(h, length) ==
    [h EXCEPT !.headerCrc = CRC32_calculate(EncodeBootImage(h, sizes.hdr)),
              !.bootImageLength = length]

checksummed(h, length) ==
    LET g == [h EXCEPT !.bootImageLength = length]
    IN  [g EXCEPT !.headerCrc = CRC32_calculate(EncodeBootImage(g, sizes.hdr))]

\* generate_payload between generate_blobs and the second generate_header
finalize_bootImageLength_crc ==
    /\ pc = "blob_loop"
    /\ blobIndex = numChunks
    /\ bootImage' = checksummed(bootImage, ftello(pFileOut))
    /\ probe' = [probe EXCEPT !.crcCount = @ + 1]
    /\ pc' = "header2"
    /\ UNCHANGED << sizes, builderVars, paddedVars, pFileOut,
                    private_key_filename, blobIndex, exitStatus, calls >>

signed_header_tables_only(h, data, length, sig) ==
    [h EXCEPT !.digest = SHA384(data, h.headerLength), !.ecdsaSig = sig]

\* the header after the two memcpy() of sign_payload; the digest is taken
\* over the first length bytes of data
signed_header(h, data, length, sig) ==
    [h EXCEPT !.digest = SHA384(data, length), !.ecdsaSig = sig]

\* sign_payload up to its generate_header
sign_payload ==
    /\ pc = "sign"
    /\ IF private_key_filename = "NULL"
       THEN /\ pc' = "close"
            /\ probe' = [probe EXCEPT !.preSign = pFileOut.data]
            /\ UNCHANGED << bootImage, pFileOut, exitStatus >>
       ELSE \/ LET avail == IF Len(pFileOut.data) < bootImage.bootImageLength
                               THEN Len(pFileOut.data)
                               ELSE bootImage.bootImageLength
               IN  /\ pFileOut' = fseek(pFileOut, avail)
                   /\ probe' = [probe EXCEPT !.preSign = pFileOut.data,
                                             !.signIO = @ + 2]
                   /\ IF avail # bootImage.bootImageLength
                      THEN /\ pc' = "aborted"
                           /\ UNCHANGED bootImage
                      ELSE /\ pc' = "header3"
                           /\ \E sig \in SignatureValues :
                                bootImage' =
                                    signed_header(bootImage, pFileOut.data,
                                                  avail, sig)
                   /\ UNCHANGED exitStatus
            \/ /\ Exit(EXIT_SUCCESS, "fseek")
               /\ UNCHANGED << bootImage, pFileOut >>
            \/ /\ Abort("key")      \* unreadable key file or wrong curve
               /\ UNCHANGED << bootImage, pFileOut >>
    /\ UNCHANGED << sizes, builderVars, paddedVars, private_key_filename,
                    blobIndex, calls >>

\* generate_payload: fclose()
generate_payload_close ==
    /\ pc = "close"
    /\ \/ /\ pc' = "done"
          /\ UNCHANGED << exitStatus, probe >>
       \/ Exit(EXIT_FAILURE, "fclose")
    /\ UNCHANGED << sizes, bootImage, builderVars, paddedVars, pFileOut,
                    private_key_filename, blobIndex, calls >>

Next ==
    \/ generate_init
    \/ generate_add_chunk
    \/ generate_add_ziChunk
    \/ generate_payload_open
    \/ generate_header
    \/ generate_chunks
    \/ generate_ziChunks
    \/ finalize_headerLength
    \/ generate_blobs_enter
    \/ generate_blobs_iter
    \/ finalize_bootImageLength_crc
    \/ sign_payload
    \/ generate_payload_close

Spec == Init /\ [][Next]_vars

(***************************************************************************)
(* What a consumer of the file sees: the file is read back independently   *)
(* of the writer's variables                                               *)
(***************************************************************************)
File == pFileOut.data

Done == pc = "done"

\* size rounded up to the next multiple of 8
Padded(size) == CHOOSE m \in size..(size + 7) : m % 8 = 0

\* the sum of the padded sizes of chunks 1..n
RECURSIVE BlobBytes(_)
BlobBytes(n) ==
    IF n = 0 THEN 0 ELSE BlobBytes(n - 1) + Padded(chunkTable[n].chunk.size)

ReadBootImage(data) ==
    [ magic |-> data[1], version |-> data[2], headerLength |-> data[3],
      headerCrc |-> data[4], chunkTableOffset |-> data[5],
      ziChunkTableOffset |-> data[6], bootImageLength |-> data[7],
      digest |-> data[8], ecdsaSig |-> data[9] ]

ReadChunkDesc(data, off) ==
    [ owner |-> data[off + 1], loadAddr |-> data[off + 2],
      execAddr |-> data[off + 3], size |-> data[off + 4],
      crc32 |-> data[off + 5] ]

ReadZIChunkDesc(data, off) ==
    [ owner |-> data[off + 1], execAddr |-> data[off + 2],
      size |-> data[off + 3] ]

AllZero(data, off, sz) == \A k \in 1..sz : data[off + k] = 0

\* the number of descriptors of sz bytes from off up to the first all-zero one
RECURSIVE CountToSentinel(_, _, _)
CountToSentinel(data, off, sz) ==
    IF off + sz > Len(data) \/ AllZero(data, off, sz) THEN 0
    ELSE 1 + CountToSentinel(data, off + sz, sz)

ReadChunkTable(data) ==
    LET off == ReadBootImage(data).chunkTableOffset
    IN  [i \in 1..CountToSentinel(data, off, sizes.chunk) |->
            ReadChunkDesc(data, off + (i - 1) * sizes.chunk)]

ReadZIChunkTable(data) ==
    LET off == ReadBootImage(data).ziChunkTableOffset
    IN  [i \in 1..CountToSentinel(data, off, sizes.zi) |->
            ReadZIChunkDesc(data, off + (i - 1) * sizes.zi)]

\* the chunk table has been written: header and chunk table sections ended
ChunkTableWritten == Len(probe.sectionEnds) >= 2

\* the descriptor of chunk i (from 1) as it stands in the file
WrittenChunkDesc(i) ==
    ReadChunkDesc(File, bootImage.chunkTableOffset + (i - 1) * sizes.chunk)

(***************************************************************************)
(* C1: the loadAddr written into the descriptor of chunk i is              *)
(* chunkTableOffset + padded chunk-table size (N + 1 descriptors) + padded *)
(* ZI-chunk-table size (M + 1 descriptors) + the padded sizes of the       *)
(* chunks before i; consecutive load addresses differ by the padded size   *)
(* of the earlier chunk.                                                   *)
(***************************************************************************)
C1_LoadAddrFormula ==
    ChunkTableWritten =>
        /\ \A i \in 1..numChunks :
              WrittenChunkDesc(i).loadAddr =
                  bootImage.chunkTableOffset
                  + Padded(sizes.chunk * (numChunks + 1))
                  + Padded(sizes.zi * (numZIChunks + 1))
                  + BlobBytes(i - 1)
        /\ \A i \in 1..(numChunks - 1) :
              WrittenChunkDesc(i + 1).loadAddr
                  = WrittenChunkDesc(i).loadAddr
                    + chunkTable[i].chunk.size
                    + (Padded(chunkTable[i].chunk.size)
                       - chunkTable[i].chunk.size)

C1_Witness ==
    /\ Done
    /\ numChunks >= 2
    /\ numZIChunks >= 1
    /\ chunkTable[1].chunk.size % 8 # 0
    /\ sizes.chunk % 8 # 0

(***************************************************************************)
(* C2: in the closed file chunkTableOffset is the padded header size,      *)
(* ziChunkTableOffset is chunkTableOffset plus the padded chunk-table      *)
(* size, headerLength is the sum of the three padded region sizes,         *)
(* bootImageLength is headerLength plus the padded sizes of all chunks,    *)
(* and bootImageLength is the length of the file.                          *)
(***************************************************************************)
C2_HeaderFields ==
    Done =>
        LET h == ReadBootImage(File)
        IN  /\ h.chunkTableOffset = Padded(sizes.hdr)
            /\ h.ziChunkTableOffset =
                   h.chunkTableOffset + Padded(sizes.chunk * (numChunks + 1))
            /\ h.headerLength =
                   Padded(sizes.hdr)
                   + Padded(sizes.chunk * (numChunks + 1))
                   + Padded(sizes.zi * (numZIChunks + 1))
            /\ h.bootImageLength = h.headerLength + BlobBytes(numChunks)
            /\ h.bootImageLength = Len(File)
            /\ h = bootImage

C2_Witness ==
    /\ Done
    /\ numChunks >= 2
    /\ numZIChunks >= 1
    /\ private_key_filename # "NULL"
    /\ sizes.hdr % 8 # 0

(***************************************************************************)
(* C3: every section (header, chunk table, ZI-chunk table, each blob) ends *)
(* at a multiple of 8, every written loadAddr is a multiple of 8, and      *)
(* every byte that write_pad put in the file is zero.                      *)
(***************************************************************************)
C3_Alignment ==
    /\ \A k \in 1..Len(probe.sectionEnds) : probe.sectionEnds[k] % 8 = 0
    /\ \A o \in pFileOut.pads : File[o + 1] = 0
    /\ ChunkTableWritten =>
          \A i \in 1..numChunks : WrittenChunkDesc(i).loadAddr % 8 = 0

C3_Witness ==
    /\ Done
    /\ sizes.hdr % 8 # 0
    /\ sizes.zi % 8 # 0
    /\ numChunks >= 2
    /\ chunkTable[1].chunk.size % 8 # 0
    /\ Cardinality(pFileOut.pads) >= 8
    /\ Len(probe.sectionEnds) = 3 + numChunks

(***************************************************************************)
(* C4: generate_add_chunk with a descriptor of size 0 leaves the chunk     *)
(* count, both tables, the buffers and the header as they were and returns *)
(* the unchanged chunk count; the tables generate_payload starts from are  *)
(* those of the call sequence with its zero-size add_chunk calls removed.  *)
(***************************************************************************)
C4_IsZeroSizeAddChunk(call) == call.op = "add_chunk" /\ call.arg.size = 0

C4_IsAddChunk(call) == call.op = "add_chunk" /\ call.arg.size # 0

C4_IsAddZIChunk(call) == call.op = "add_ziChunk"

C4_ZeroSizeChunkIsNoOp ==
    /\ [][ (Len(calls') = Len(calls) + 1
            /\ C4_IsZeroSizeAddChunk(calls'[Len(calls')]))
           => /\ UNCHANGED << numChunks, chunkTable, numZIChunks,
                              ziChunkTable, heap, bootImage, pFileOut >>
              /\ calls'[Len(calls')].ret = numChunks ]_vars
    /\ [](pc \in {"build", "header1"} =>
            /\ [i \in 1..numChunks |-> chunkTable[i].chunk] =
                   [i \in 1..Len(SelectSeq(calls, C4_IsAddChunk)) |->
                       SelectSeq(calls, C4_IsAddChunk)[i].arg]
            /\ [i \in 1..numZIChunks |-> ziChunkTable[i].ziChunk] =
                   [i \in 1..Len(SelectSeq(calls, C4_IsAddZIChunk)) |->
                       SelectSeq(calls, C4_IsAddZIChunk)[i].arg]
            /\ Len(heap) = numChunks)

C4_Witness ==
    /\ Done
    /\ Len(calls) = 3
    /\ C4_IsAddChunk(calls[1])
    /\ C4_IsZeroSizeAddChunk(calls[2])
    /\ C4_IsAddChunk(calls[3])
    /\ calls[2].ret = 1
    /\ numChunks = 2

(***************************************************************************)
(* C5: a reader that walks each table of the closed file up to the first   *)
(* all-zero descriptor recovers exactly the chunks and the ZI chunks that  *)
(* were added, in order (stated of the builds that read no table entry out *)
(* of bounds).                                                             *)
(***************************************************************************)
C5_RoundTrip ==
    (Done /\ ~probe.oobRead) =>
        /\ ReadChunkTable(File) = [i \in 1..numChunks |-> chunkTable[i].chunk]
        /\ ReadZIChunkTable(File) =
               [i \in 1..numZIChunks |-> ziChunkTable[i].ziChunk]

(***************************************************************************)
(* C6: the header checksum is computed once, over the header with its      *)
(* final offsets and lengths, the checksum field zero and the signature    *)
(* block zero; with no key the header in the file is that record with the  *)
(* checksum filled in, so the checksum recomputed over the header of the   *)
(* file with the checksum field zeroed is the stored one.                  *)
(***************************************************************************)
C6_ChecksumInput ==
    [bootImage EXCEPT !.headerCrc = 0, !.digest = 0, !.ecdsaSig = 0]

C6_Checksum ==
    Done =>
        /\ probe.crcCount = 1
        /\ bootImage.headerCrc =
               CRC32_calculate(EncodeBootImage(C6_ChecksumInput, sizes.hdr))
        /\ private_key_filename = "NULL" =>
              /\ SubSeq(File, 1, sizes.hdr) =
                     EncodeBootImage([C6_ChecksumInput EXCEPT
                                         !.headerCrc = bootImage.headerCrc],
                                     sizes.hdr)
              /\ ReadBootImage(File).headerCrc =
                     CRC32_calculate(
                         [k \in 1..sizes.hdr |->
                             IF k = 4 THEN 0 ELSE File[k]])

C6_Witness ==
    /\ Done
    /\ private_key_filename = "NULL"
    /\ numChunks >= 1
    /\ numZIChunks >= 1
    /\ ReadBootImage(File).headerCrc # 0
    /\ ReadBootImage(File).bootImageLength > ReadBootImage(File).headerLength

(***************************************************************************)
(* C7: with a key, the stored digest is the hash of the first              *)
(* bootImageLength bytes of the file as sign_payload found it (checksum    *)
(* populated, digest and signature zero), and signing changes only the     *)
(* digest and signature bytes of the header; with no key sign_payload      *)
(* makes no stream operation and leaves the file as it was.                *)
(***************************************************************************)
C7_Signing ==
    pc \in {"close", "done"} =>
        IF private_key_filename = "NULL"
        THEN /\ probe.signIO = 0
             /\ File = probe.preSign
        ELSE /\ ReadBootImage(File).digest =
                    SHA384(probe.preSign, bootImage.bootImageLength)
             /\ ReadBootImage(probe.preSign) =
                    [bootImage EXCEPT !.digest = 0, !.ecdsaSig = 0]
             /\ Len(File) = Len(probe.preSign)
             /\ \A k \in 1..Len(File) :
                    k \notin {8, 9} => File[k] = probe.preSign[k]
             /\ ReadBootImage(File).ecdsaSig \in SignatureValues

C7_Witness ==
    /\ Done
    /\ private_key_filename # "NULL"
    /\ numChunks >= 2
    /\ probe.signIO = 3
    /\ ReadBootImage(File).digest # 0
    /\ File # probe.preSign

(***************************************************************************)
(* C8: a process ended by the failure of an I/O call exits with a failure  *)
(* status, except when the failed call is the fputc() of write_pad.        *)
(***************************************************************************)
C8_ExitStatus ==
    pc = "exited" =>
        (exitStatus = EXIT_SUCCESS <=> probe.failSite = "write_pad")

(***************************************************************************)
(* C9: a build that meets no I/O error never reads a chunk-table entry at  *)
(* an index >= numChunks and fails no self-consistency assertion, also     *)
(* when no chunk was added.                                                *)
(***************************************************************************)
C9_NoOutOfBoundsRead ==
    /\ ~probe.oobRead
    /\ pc = "aborted" => probe.failSite = "key"

(***************************************************************************)
(* C10: every blob starts at the loadAddr written in its descriptor, the   *)
(* first one at headerLength; blobs lie in the file in the order the       *)
(* chunks were added; each buffer is written once and freed once, after    *)
(* its write, and never read again.                                        *)
(***************************************************************************)
C10_BlobPlacement ==
    /\ \A i \in 1..Len(probe.blobStart) :
          /\ probe.blobStart[i] = WrittenChunkDesc(i).loadAddr
          /\ SubSeq(File, probe.blobStart[i] + 1,
                    probe.blobStart[i] + chunkTable[i].chunk.size)
                 = heap[chunkTable[i].pBuffer].data
          /\ heap[chunkTable[i].pBuffer].writes = 1
          /\ heap[chunkTable[i].pBuffer].frees = 1
    /\ Len(probe.blobStart) >= 1 => probe.blobStart[1] = bootImage.headerLength
    /\ \A i \in 1..(Len(probe.blobStart) - 1) :
          probe.blobStart[i] < probe.blobStart[i + 1]
    /\ \A i \in (Len(probe.blobStart) + 1)..numChunks :
          /\ heap[chunkTable[i].pBuffer].writes = 0
          /\ heap[chunkTable[i].pBuffer].frees = 0
    /\ \A i, j \in 1..numChunks :
          chunkTable[i].pBuffer = chunkTable[j].pBuffer => i = j
    /\ ~probe.badBuffer
    /\ Done => Len(probe.blobStart) = numChunks

C10_Witness ==
    /\ Done
    /\ numChunks = 3
    /\ chunkTable[1].chunk.size % 8 # 0
    /\ chunkTable[2].chunk.size % 8 # 0
    /\ sizes.zi % 8 # 0

=============================================================================
